---- MODULE Spec2Model ----
(***************************************************************************)
(* Model of the incendium package: the database gateway (incendium/db.py)  *)
(* and the user gateway (incendium/user.py).  Every call into the host     *)
(* platform (system.db, system.user, system.security) is a step whose      *)
(* result is chosen by the host: it returns a value or raises.             *)
(*                                                                         *)
(* Python's None is the empty tuple <<>>; a present value v is <<v>>.      *)
(***************************************************************************)
EXTENDS Integers, Sequences, FiniteSets, TLC

VARIABLES
    pc,        \* position inside the running database call, "idle" before it
    fn,        \* the public function (or _execute_sp itself) that was called
    args,      \* the arguments _execute_sp runs with
    i,         \* index of the dictionary entry a for-loop is at
    log,       \* the host calls made so far, in order, each with its outcome
    outp,      \* the local dictionary _out_params
    result,    \* the _Result object under construction
    outcome,   \* how the public call ended: nothing yet, a value, a failure
    upc,       \* position inside get_user
    uargs,     \* get_user's arguments and the host's user sources
    ulog,      \* the host calls get_user made so far
    uname,     \* local _username
    user,      \* local user
    uret,      \* how get_user ended
    epc,       \* position of get_emails
    eargs,     \* get_emails' arguments and the users the host returns
    eret       \* what get_emails returned

dbvars == <<pc, fn, args, i, log, outp, result, outcome>>
uservars == <<upc, uargs, ulog, uname, user, uret>>
emailvars == <<epc, eargs, eret>>
vars == <<pc, fn, args, i, log, outp, result, outcome,
          upc, uargs, ulog, uname, user, uret, epc, eargs, eret>>

(***************************************************************************)
(* Bounds of the model.                                                    *)
(***************************************************************************)
MaxInParams == 2
MaxOutParams == 2
MaxUsers == 2
MaxContacts == 1

(***************************************************************************)
(* Python values.                                                          *)
(***************************************************************************)
None == <<>>
Some(v) == <<v>>
Val(o) == o[1]

\* Truth value of an optional dictionary or string: None and the empty
\* dictionary / string are false.
Truthy(o) == o # None /\ Val(o) # <<>>
TruthyStr(o) == o # None /\ Val(o) # ""

\* A dictionary is the sequence of its items [name, entry] in iteration
\* order, no name twice.  All dictionaries of at most n of the items Items.
RECURSIVE DictsUpTo(_, _)
DictsUpTo(Items, n) ==
    IF n = 0 THEN {<<>>}
    ELSE LET shorter == DictsUpTo(Items, n - 1)
         IN  shorter \cup
             {Append(d, it) :
                 d \in {s \in shorter : Len(s) = n - 1}, it \in Items}

DistinctNames(d) ==
    \A a, b \in 1..Len(d) : a # b => d[a].name # d[b].name

Dicts(Items, n) == {d \in DictsUpTo(Items, n) : DistinctNames(d)}

Keys(d) == {d[k].name : k \in 1..Len(d)}

(***************************************************************************)
(* incendium/db.py                                                         *)
(***************************************************************************)
BIT == -7

\* The entries scripts pass: in_params maps a name to [type code, value],
\* out_params maps a name to a type code.
InParamItems ==
    {[name |-> "a", entry |-> <<4, 10>>],
     [name |-> "b", entry |-> <<BIT, 1>>],
     [name |-> "c", entry |-> <<12, 5>>]}
OutParamItems ==
    {[name |-> "flag", entry |-> BIT],
     [name |-> "n", entry |-> 4],
     [name |-> "m", entry |-> 12]}
Transactions == {None, Some("tx")}

\* What the host may answer to each accessor of the call object.
OutParamValues == {0, 1}
ResultSets == {None, Some(<<>>), Some(<<10>>)}
ReturnValues == {0, 4}
UpdateCounts == {-1, 3}
HostErrors == {"SQLException"}

InParamChoices ==
    {None} \cup {Some(d) : d \in Dicts(InParamItems, MaxInParams)}
OutParamChoices ==
    {None} \cup {Some(d) : d \in Dicts(OutParamItems, MaxOutParams)}

\* _Result.__init__ with its defaults.
_Result ==
    [output_params |-> None, result_set |-> None,
     return_value |-> None, update_count |-> None]

\* The parameters of _execute_sp, with the defaults of its signature.
Defaults ==
    [stored_procedure |-> "sp", database |-> "", transaction |-> None,
     skip_audit |-> FALSE, in_params |-> None, out_params |-> None,
     get_out_params |-> FALSE, get_result_set |-> FALSE,
     get_ret_val |-> FALSE, return_type_code |-> None,
     get_update_count |-> FALSE]

NoOutcome == [kind |-> "none", value |-> None]
Returned(v) == [kind |-> "returned", value |-> v]
Raised(e) == [kind |-> "raised", value |-> e]

Ok(v) == [ok |-> TRUE, v |-> v]
Err(e) == [ok |-> FALSE, v |-> e]

Entry(op, a, r) == [op |-> op, args |-> a, ret |-> r]

\* A failure of a host call is not caught anywhere in db.py: the call of
\* the public function ends with it.
Propagate_Swallow(e) ==
    /\ pc' = "return"
    /\ UNCHANGED <<i, outp, result, outcome>>
Propagate(e) ==
    /\ pc' = "done"
    /\ outcome' = Raised(e)
    /\ UNCHANGED <<i, outp, result>>

\* One call into the host is logged with its outcome.  It returns v ...
HostReturns(op, a, v) == log' = Append(log, Entry(op, a, Ok(v)))
\* ... or it raises, and the failure propagates.
HostRaises(op, a) ==
    \E e \in HostErrors :
        /\ log' = Append(log, Entry(op, a, Err(e)))
        /\ Propagate(e)

Start(f, a) ==
    /\ pc = "idle"
    /\ pc' = "create"
    /\ fn' = f
    /\ args' = a
    /\ i' = 1
    /\ log' = <<>>
    /\ outp' = {}
    /\ result' = _Result
    /\ outcome' = NoOutcome
    /\ UNCHANGED <<uservars, emailvars>>

\* A script calls _execute_sp itself, with any combination of arguments.
Call_execute_sp ==
    /\ pc = "idle"
    /\ \E inp \in InParamChoices, out \in OutParamChoices,
          gop, grs, grv, guc \in BOOLEAN :
       \E rtc \in IF grv THEN {None, Some(4)} ELSE {None} :
           Start("_execute_sp",
                 [Defaults EXCEPT !.in_params = inp, !.out_params = out,
                                  !.get_out_params = gop,
                                  !.get_result_set = grs,
                                  !.get_ret_val = grv, !.return_type_code = rtc,
                                  !.get_update_count = guc])

CheckOutput_NoFlag == <<[name |-> "n", entry |-> BIT]>>
CheckOutput == <<[name |-> "flag", entry |-> BIT]>>

Call_check ==
    /\ pc = "idle"
    /\ \E params \in InParamChoices :
           Start("check",
                 [Defaults EXCEPT !.in_params = params,
                                  !.out_params = Some(CheckOutput),
                                  !.get_out_params = TRUE])

Call_execute_non_query ==
    /\ pc = "idle"
    /\ \E params \in InParamChoices, tx \in Transactions :
           Start("execute_non_query",
                 [Defaults EXCEPT !.transaction = tx, !.in_params = params,
                                  !.get_update_count = TRUE])

Call_get_data ==
    /\ pc = "idle"
    /\ \E params \in InParamChoices :
           Start("get_data",
                 [Defaults EXCEPT !.in_params = params,
                                  !.get_result_set = TRUE])

Call_get_output_params ==
    /\ pc = "idle"
    /\ \E output \in OutParamChoices, params \in InParamChoices,
          tx \in Transactions :
           Start("get_output_params",
                 [Defaults EXCEPT !.transaction = tx, !.in_params = params,
                                  !.out_params = output,
                                  !.get_out_params = TRUE])

Call_get_return_value ==
    /\ pc = "idle"
    /\ \E rtc \in {None, Some(4)}, params \in InParamChoices,
          tx \in Transactions :
           Start("get_return_value",
                 [Defaults EXCEPT !.transaction = tx, !.in_params = params,
                                  !.return_type_code = rtc,
                                  !.get_ret_val = TRUE])

DbStep == UNCHANGED <<fn, args, uservars, emailvars>>

InItems == IF Truthy(args.in_params) THEN Val(args.in_params) ELSE <<>>
OutItems == IF Truthy(args.out_params) THEN Val(args.out_params) ELSE <<>>

\* call = system.db.createSProcCall(procedureName=..., database=...,
\*                                  tx=..., skipAudit=...)
CreateSProcCall ==
    /\ pc = "create"
    /\ LET a == <<args.stored_procedure, args.database,
                   args.transaction, args.skip_audit>>
            IN  \/ \E v \in {None} :
                    /\ HostReturns("createSProcCall", a, v)
                    /\ pc' = "in"
                    /\ UNCHANGED <<i, outp, result, outcome>>
                \/ HostRaises("createSProcCall", a)
    /\ DbStep

\* The arguments of call.registerInParam for one entry of in_params.
RegisterInParamArgs_Swapped(item) ==
    <<item.name, item.entry[2], item.entry[1]>>
RegisterInParamArgs(item) ==
    <<item.name, item.entry[1], item.entry[2]>>

\* if in_params: for in_param in in_params: call.registerInParam(...)
RegisterInParams ==
    /\ pc = "in"
    /\ IF i <= Len(InItems)
       THEN LET a == RegisterInParamArgs(InItems[i])
            IN  \/ \E v \in {None} :
                    /\ HostReturns("registerInParam", a, v)
                    /\ i' = i + 1
                    /\ UNCHANGED <<pc, outp, result, outcome>>
                \/ HostRaises("registerInParam", a)
       ELSE /\ pc' = "out"
            /\ i' = 1
            /\ UNCHANGED <<log, outp, result, outcome>>
    /\ DbStep

\* if out_params: for out_param in out_params: call.registerOutParam(...)
RegisterOutParams ==
    /\ pc = "out"
    /\ IF i <= Len(OutItems)
       THEN LET a == <<OutItems[i].name, OutItems[i].entry>>
            IN  \/ \E v \in {None} :
                    /\ HostReturns("registerOutParam", a, v)
                    /\ i' = i + 1
                    /\ UNCHANGED <<pc, outp, result, outcome>>
                \/ HostRaises("registerOutParam", a)
       ELSE /\ pc' = "ret"
            /\ i' = 1
            /\ UNCHANGED <<log, outp, result, outcome>>
    /\ DbStep

\* if get_ret_val: call.registerReturnParam(return_type_code)
RegisterReturnParam_Always ==
    /\ pc = "ret"
    /\ LET a == <<args.return_type_code>>
            IN  \/ \E v \in {None} :
                    /\ HostReturns("registerReturnParam", a, v)
                    /\ pc' = "exec"
                    /\ UNCHANGED <<i, outp, result, outcome>>
                \/ HostRaises("registerReturnParam", a)
    /\ DbStep
RegisterReturnParam ==
    /\ pc = "ret"
    /\ IF args.get_ret_val
       THEN LET a == <<args.return_type_code>>
            IN  \/ \E v \in {None} :
                    /\ HostReturns("registerReturnParam", a, v)
                    /\ pc' = "exec"
                    /\ UNCHANGED <<i, outp, result, outcome>>
                \/ HostRaises("registerReturnParam", a)
       ELSE /\ pc' = "exec"
            /\ UNCHANGED <<i, log, outp, result, outcome>>
    /\ DbStep

\* system.db.execSProcCall(call)
ExecSProcCall ==
    /\ pc = "exec"
    /\ LET a == <<>>
            IN  \/ \E v \in {None} :
                    /\ HostReturns("execSProcCall", a, v)
                    /\ pc' = "getout"
                    /\ UNCHANGED <<i, outp, result, outcome>>
                \/ HostRaises("execSProcCall", a)
    /\ DbStep

\* _out_params[out_param] = value: a dictionary assignment.
SetItem_Overwrite(d, k, v) == {<<k, v>>}
SetItem(d, k, v) == {p \in d : p[1] # k} \cup {<<k, v>>}

\* if out_params: for out_param in out_params:
\*     _out_params[out_param] = call.getOutParamValue(out_param)
GetOutParamValues ==
    /\ pc = "getout"
    /\ IF i <= Len(OutItems)
       THEN LET a == <<OutItems[i].name>>
            IN  \/ \E v \in OutParamValues :
                    /\ HostReturns("getOutParamValue", a, v)
                    /\ i' = i + 1
                    /\ outp' = SetItem(outp, OutItems[i].name, v)
                    /\ UNCHANGED <<pc, result, outcome>>
                \/ HostRaises("getOutParamValue", a)
       ELSE /\ pc' = "setout"
            /\ i' = 1
            /\ UNCHANGED <<log, outp, result, outcome>>
    /\ DbStep

\* if get_out_params: _result.output_params = _out_params
SetOutputParams_Always ==
    /\ pc = "setout"
    /\ pc' = "rs"
    /\ result' = [result EXCEPT !.output_params = Some(outp)]
    /\ UNCHANGED <<i, log, outp, outcome>>
    /\ DbStep
SetOutputParams ==
    /\ pc = "setout"
    /\ pc' = "rs"
    /\ result' = IF args.get_out_params
                 THEN [result EXCEPT !.output_params = Some(outp)]
                 ELSE result
    /\ UNCHANGED <<i, log, outp, outcome>>
    /\ DbStep

\* if get_result_set: _result.result_set = call.getResultSet()
GetResultSet_Normalised ==
    /\ pc = "rs"
    /\ IF args.get_result_set
       THEN LET a == <<>>
            IN  \/ \E v \in ResultSets :
                    /\ HostReturns("getResultSet", a, v)
                    /\ pc' = "rv"
                    /\ result' = [result EXCEPT !.result_set =
                                      IF v = None THEN Some(<<>>) ELSE v]
                    /\ UNCHANGED <<i, outp, outcome>>
                \/ HostRaises("getResultSet", a)
       ELSE /\ pc' = "rv"
            /\ UNCHANGED <<i, log, outp, result, outcome>>
    /\ DbStep
GetResultSet ==
    /\ pc = "rs"
    /\ IF args.get_result_set
       THEN LET a == <<>>
            IN  \/ \E v \in ResultSets :
                    /\ HostReturns("getResultSet", a, v)
                    /\ pc' = "rv"
                    /\ result' = [result EXCEPT !.result_set = v]
                    /\ UNCHANGED <<i, outp, outcome>>
                \/ HostRaises("getResultSet", a)
       ELSE /\ pc' = "rv"
            /\ UNCHANGED <<i, log, outp, result, outcome>>
    /\ DbStep

\* if get_ret_val: _result.return_value = call.getReturnValue()
GetReturnValue ==
    /\ pc = "rv"
    /\ IF args.get_ret_val
       THEN LET a == <<>>
            IN  \/ \E v \in ReturnValues :
                    /\ HostReturns("getReturnValue", a, v)
                    /\ pc' = "uc"
                    /\ result' = [result EXCEPT !.return_value = Some(v)]
                    /\ UNCHANGED <<i, outp, outcome>>
                \/ HostRaises("getReturnValue", a)
       ELSE /\ pc' = "uc"
            /\ UNCHANGED <<i, log, outp, result, outcome>>
    /\ DbStep

\* if get_update_count: _result.update_count = call.getUpdateCount()
GetUpdateCount ==
    /\ pc = "uc"
    /\ IF args.get_update_count
       THEN LET a == <<>>
            IN  \/ \E v \in UpdateCounts :
                    /\ HostReturns("getUpdateCount", a, v)
                    /\ pc' = "return"
                    /\ result' = [result EXCEPT !.update_count = Some(v)]
                    /\ UNCHANGED <<i, outp, outcome>>
                \/ HostRaises("getUpdateCount", a)
       ELSE /\ pc' = "return"
            /\ UNCHANGED <<i, log, outp, result, outcome>>
    /\ DbStep

\* d[k] for a dictionary d that holds k.
GetItem(d, k) == (CHOOSE p \in d : p[1] = k)[2]
HasKey(d, k) == \E p \in d : p[1] = k

\* What the public function f makes of the bundle r that _execute_sp
\* returned to it.
PublicReturn(f, r) ==
    CASE f = "_execute_sp" -> Returned(r)
      [] f = "check" ->
            IF HasKey(Val(r.output_params), "flag")
            THEN Returned(GetItem(Val(r.output_params), "flag"))
            ELSE Raised("KeyError")
      [] f = "execute_non_query" -> Returned(r.update_count)
      [] f = "get_data" -> Returned(r.result_set)
      [] f = "get_output_params" -> Returned(r.output_params)
      [] f = "get_return_value" -> Returned(r.return_value)

\* return _result, and the return statement of the public function.
Return ==
    /\ pc = "return"
    /\ pc' = "done"
    /\ outcome' = PublicReturn(fn, result)
    /\ UNCHANGED <<i, log, outp, result>>
    /\ DbStep

Init ==
    /\ pc = "idle"
    /\ fn = "none"
    /\ args = Defaults
    /\ i = 1
    /\ log = <<>>
    /\ outp = {}
    /\ result = _Result
    /\ outcome = NoOutcome
    /\ upc = "idle"
    /\ uargs = <<>>
    /\ ulog = <<>>
    /\ uname = None
    /\ user = None
    /\ uret = NoOutcome
    /\ epc = "idle"
    /\ eargs = <<>>
    /\ eret = None

Next ==
    \/ Call_execute_sp
    \/ Call_check
    \/ Call_execute_non_query
    \/ Call_get_data
    \/ Call_get_output_params
    \/ Call_get_return_value
    \/ CreateSProcCall
    \/ RegisterInParams
    \/ RegisterOutParams
    \/ RegisterReturnParam
    \/ ExecSProcCall
    \/ GetOutParamValues
    \/ SetOutputParams
    \/ GetResultSet
    \/ GetReturnValue
    \/ GetUpdateCount
    \/ Return

Spec == Init /\ [][Next]_vars

(***************************************************************************)
(* incendium/user.py: get_user                                             *)
(***************************************************************************)
\* The names of the host's user sources; "" names the default source.
Sources == {"", "A", "B"}

\* The host's user object for the logged-in username in source s: the
\* same person may be recorded differently in each source.  Names are
\* sequences of characters.
HostUser(s) ==
    [Username |-> "jdoe",
     FirstName |-> <<"J">>,
     LastName |-> <<"D", "o", "e">>,
     Language |-> CASE s = "" -> "en" [] s = "A" -> "es" [] s = "B" -> "fr"]

\* Every content of the host's user sources: each source holds a user
\* with the logged-in username or does not.
Directories ==
    {[s \in Sources |-> IF s \in found THEN Some(HostUser(s)) ELSE None] :
        found \in SUBSET Sources}

\* _User.__init__
_User_Swapped(u) ==
    [_username |-> u.Username, _first_name |-> u.LastName,
     _last_name |-> u.FirstName, _locale |-> u.Language]
_User(u) ==
    [_username |-> u.Username, _first_name |-> u.FirstName,
     _last_name |-> u.LastName, _locale |-> u.Language]

\* _User.get_full_name: ' '.join([first name, last name])
get_full_name(v) == v._first_name \o <<" ">> \o v._last_name

UserStep == UNCHANGED <<dbvars, emailvars, uargs>>

Call_get_user ==
    /\ upc = "idle"
    /\ \E us, fo \in {None} \cup {Some(s) : s \in Sources},
          dir \in Directories :
           uargs' = [user_source |-> us, failover |-> fo, directory |-> dir]
    /\ upc' = "username"
    /\ UNCHANGED <<ulog, uname, user, uret, dbvars, emailvars>>

\* _username = system.security.getUsername()
GetUsername ==
    /\ upc = "username"
    /\ uname' = Some("jdoe")
    /\ ulog' = Append(ulog, Entry("getUsername", <<>>, Ok(Some("jdoe"))))
    /\ upc' = "primary"
    /\ UNCHANGED <<user, uret>>
    /\ UserStep

\* system.user.getUser(source, username): the user, or None.
getUser(source, username) == uargs.directory[source]

\* Whether get_user looks the primary source up.
TriesUserSource == TruthyStr(uargs.user_source)

\* if user_source: user = system.user.getUser(user_source, _username)
TryUserSource ==
    /\ upc = "primary"
    /\ IF TriesUserSource
       THEN LET u == getUser(Val(uargs.user_source), Val(uname))
            IN  /\ user' = u
                /\ ulog' = Append(ulog,
                                  Entry("getUser",
                                        <<Val(uargs.user_source), Val(uname)>>,
                                        Ok(u)))
       ELSE UNCHANGED <<user, ulog>>
    /\ upc' = "failover"
    /\ UNCHANGED <<uname, uret>>
    /\ UserStep

\* Whether get_user looks the failover source up.
TriesFailover_Always == TruthyStr(uargs.failover)
TriesFailover == user = None /\ TruthyStr(uargs.failover)

\* if not user and failover: user = system.user.getUser(failover, _username)
TryFailover ==
    /\ upc = "failover"
    /\ IF TriesFailover
       THEN LET u == getUser(Val(uargs.failover), Val(uname))
            IN  /\ user' = u
                /\ ulog' = Append(ulog,
                                  Entry("getUser",
                                        <<Val(uargs.failover), Val(uname)>>,
                                        Ok(u)))
       ELSE UNCHANGED <<user, ulog>>
    /\ upc' = "wrap"
    /\ UNCHANGED <<uname, uret>>
    /\ UserStep

\* if user: user_obj = _User(user); return user_obj
ReturnUser ==
    /\ upc = "wrap"
    /\ uret' = Returned(IF user # None THEN Some(_User(Val(user))) ELSE None)
    /\ upc' = "done"
    /\ UNCHANGED <<ulog, uname, user>>
    /\ UserStep

NextUser ==
    \/ Call_get_user
    \/ GetUsername
    \/ TryUserSource
    \/ TryFailover
    \/ ReturnUser

SpecUser == Init /\ [][NextUser]_vars

(***************************************************************************)
(* incendium/user.py: get_emails                                           *)
(***************************************************************************)
\* Addresses are strings, here sequences of character codes: "b", "ab", "a".
ContactEntries ==
    {[contactType |-> "email", value |-> <<98>>],
     [contactType |-> "email", value |-> <<97, 98>>],
     [contactType |-> "phone", value |-> <<97>>]}
RoleLists == {<<>>, <<"op">>, <<"op", "admin">>}
RoleFilters == {"", "admin"}

RECURSIVE SeqsUpTo(_, _)
SeqsUpTo(S, n) ==
    IF n = 0 THEN {<<>>}
    ELSE LET shorter == SeqsUpTo(S, n - 1)
         IN  shorter \cup
             {Append(q, x) : q \in {t \in shorter : Len(t) = n - 1}, x \in S}

\* The users system.user.getUsers may return.
HostUsers ==
    {[contacts |-> c, roles |-> r] :
        c \in SeqsUpTo(ContactEntries, MaxContacts), r \in RoleLists}
UserLists == SeqsUpTo(HostUsers, MaxUsers)

\* Python's order of strings: by the first differing character, a proper
\* prefix first.
RECURSIVE StrLess(_, _)
StrLess(a, b) ==
    IF b = <<>> THEN FALSE
    ELSE IF a = <<>> THEN TRUE
    ELSE IF Head(a) # Head(b) THEN Head(a) < Head(b)
    ELSE StrLess(Tail(a), Tail(b))

\* sorted(list(s))
RECURSIVE sorted(_)
sorted(S) ==
    IF S = {} THEN <<>>
    ELSE LET m == CHOOSE x \in S : \A y \in S : y = x \/ StrLess(x, y)
         IN  <<m>> \o sorted(S \ {m})

\* x in list
InList(x, l) == \E k \in 1..Len(l) : l[k] = x

\* _emails = [ci.value for ci in user.getContactInfo()
\*            if ci.contactType == 'email']
EmailsOf(u) ==
    SelectSeq(u.contacts, LAMBDA ci : ci.contactType = "email")

\* The inner loop: for email in _emails, add it if the user passes the
\* filter.
AddEmails_NoFilter(emails, u, filter_role) ==
    emails \cup {EmailsOf(u)[k].value : k \in 1..Len(EmailsOf(u))}
AddEmails(emails, u, filter_role) ==
    IF filter_role # ""
    THEN IF InList(filter_role, u.roles)
         THEN emails \cup {EmailsOf(u)[k].value : k \in 1..Len(EmailsOf(u))}
         ELSE emails
    ELSE emails \cup {EmailsOf(u)[k].value : k \in 1..Len(EmailsOf(u))}

\* The outer loop over users[k..], from the set emails.
RECURSIVE CollectEmails(_, _, _, _)
CollectEmails(emails, users, k, filter_role) ==
    IF k > Len(users) THEN emails
    ELSE CollectEmails(AddEmails(emails, users[k], filter_role),
                       users, k + 1, filter_role)

get_emails(users, filter_role) ==
    sorted(CollectEmails({}, users, 1, filter_role))

\* One call of get_emails: the host returns the users of the source and
\* the function returns the sorted list.
Call_get_emails ==
    /\ epc = "idle"
    /\ \E users \in UserLists, filter_role \in RoleFilters :
        /\ eargs' = [user_source |-> "", filter_role |-> filter_role,
                     users |-> users]
        /\ eret' = get_emails(users, filter_role)
    /\ epc' = "done"
    /\ UNCHANGED <<dbvars, uservars>>

NextEmails == Call_get_emails

SpecEmails == Init /\ [][NextEmails]_vars

(***************************************************************************)
(* Properties of the database gateway, checked under Spec.                 *)
(***************************************************************************)
Indices(op) == {k \in 1..Len(log) : log[k].op = op}
Count(op) == Cardinality(Indices(op))
\* What the host answered to the (only) call of accessor op.
Reported(op) == log[CHOOSE k \in Indices(op) : TRUE].ret.v
ReportedOut(name) ==
    log[CHOOSE k \in Indices("getOutParamValue") :
            log[k].args = <<name>>].ret.v
Completed == pc = "done" /\ outcome.kind = "returned"
Failures == {k \in 1..Len(log) : ~log[k].ret.ok}

\* C1: a call of _execute_sp that completes has created exactly one call
\* object and executed it exactly once, and each field of the returned
\* bundle holds what the call object reported if its flag was true and is
\* None if its flag was false.
C1_OneInvocationRequestedFacets ==
    Completed =>
        /\ Count("createSProcCall") = 1
        /\ Count("execSProcCall") = 1
        /\ fn = "_execute_sp" => outcome.value = result
        /\ IF args.get_out_params
           THEN /\ result.output_params # None
                /\ Val(result.output_params) =
                       {<<n, ReportedOut(n)>> : n \in Keys(OutItems)}
           ELSE result.output_params = None
        /\ IF args.get_result_set
           THEN /\ Count("getResultSet") = 1
                /\ result.result_set = Reported("getResultSet")
           ELSE result.result_set = None
        /\ IF args.get_ret_val
           THEN /\ Count("getReturnValue") = 1
                /\ result.return_value = Some(Reported("getReturnValue"))
           ELSE result.return_value = None
        /\ IF args.get_update_count
           THEN /\ Count("getUpdateCount") = 1
                /\ result.update_count = Some(Reported("getUpdateCount"))
           ELSE result.update_count = None

C1_Witness ==
    /\ Completed
    /\ fn = "_execute_sp"
    /\ Len(OutItems) = 2
    /\ ~args.get_out_params
    /\ args.get_result_set
    /\ ~args.get_ret_val
    /\ args.get_update_count
    /\ result.result_set = Some(<<10>>)
    /\ result.update_count = Some(-1)
    /\ result.output_params = None

\* C2: a failure of createSProcCall, of a registration or of execSProcCall
\* (or of an accessor) ends the call at once with that same failure: the
\* failed host call is the last one made, nothing is retried, no bundle is
\* returned; a public call ends with the requested facet, every host call
\* having succeeded, or with the host's failure.
C2_FailurePropagatesUnchanged ==
    /\ \A k \in Failures :
        /\ k = Len(log)
        /\ pc = "done"
        /\ outcome = Raised(log[k].ret.v)
    /\ outcome.kind = "raised" => Failures # {}
    /\ Completed =>
        /\ Failures = {}
        /\ Count("execSProcCall") = 1
        /\ Count("registerInParam") = Len(InItems)
        /\ Count("registerOutParam") = Len(OutItems)
        /\ Count("getOutParamValue") = Len(OutItems)
        /\ outcome.value =
              CASE fn = "_execute_sp" -> result
                [] fn = "check" -> ReportedOut("flag")
                [] fn = "execute_non_query" ->
                       Some(Reported("getUpdateCount"))
                [] fn = "get_data" -> Reported("getResultSet")
                [] fn = "get_output_params" ->
                       Some({<<n, ReportedOut(n)>> : n \in Keys(OutItems)})
                [] fn = "get_return_value" ->
                       Some(Reported("getReturnValue"))

C2_Witness ==
    /\ pc = "done"
    /\ fn = "get_output_params"
    /\ outcome = Raised("SQLException")
    /\ Len(log) = 4
    /\ log[4].op = "registerOutParam"
    /\ ~log[4].ret.ok
    /\ Len(OutItems) = 2
    /\ result = _Result

\* C5: the output-parameter map of a bundle made with get_out_params (and
\* so the map get_output_params returns) has exactly the declared output
\* names as keys, none when none were declared, and maps each to the value
\* the call object reported for it after execution.
C5_OutputMapHasDeclaredKeys ==
    (Completed /\ args.get_out_params) =>
        LET d == Val(result.output_params)
        IN  /\ result.output_params # None
            /\ {p[1] : p \in d} = Keys(OutItems)
            /\ Cardinality(d) = Len(OutItems)
            /\ \A p \in d :
                \E k \in Indices("getOutParamValue") :
                    /\ k > CHOOSE e \in Indices("execSProcCall") : TRUE
                    /\ log[k].args = <<p[1]>>
                    /\ log[k].ret = Ok(p[2])
            /\ fn = "get_output_params" =>
                   outcome.value = result.output_params

C5_Witness ==
    /\ Completed
    /\ fn = "get_output_params"
    /\ Len(OutItems) = 2
    /\ Cardinality(Val(outcome.value)) = 2
    /\ \E p \in Val(outcome.value) : p[1] = "n" /\ p[2] = 1

\* C6 as stated: get_data never returns None, whatever the host answers.
C6_Original_NeverAbsent ==
    (Completed /\ fn = "get_data") => outcome.value # None

\* C6 amended: get_data returns exactly what the call object's
\* getResultSet reported: a result set, empty or not, when the host
\* reported one, and None when the host reported None.
C6_ReturnsWhatHostReports ==
    (Completed /\ fn = "get_data") =>
        /\ Count("getResultSet") = 1
        /\ outcome.value = Reported("getResultSet")

C6_Witness ==
    /\ Completed
    /\ fn = "get_data"
    /\ Reported("getResultSet") = None
    /\ outcome.value = None

\* The registerInParam calls made so far, in order.
InRegistrations == SelectSeq(log, LAMBDA e : e.op = "registerInParam")
\* An entry of in_params is [type tag, value].
TypeTag(entry) == entry[1]
Value(entry) == entry[2]
\* The registration is over: a later step has been reached.
PastInParams ==
    \/ pc \in {"out", "ret", "exec", "getout", "setout", "rs", "rv", "uc",
               "return"}
    \/ Completed
    \/ \E k \in 1..Len(log) :
          log[k].op \notin {"createSProcCall", "registerInParam"}

\* C7: check registers exactly one output parameter, 'flag' typed BIT,
\* forwards params as the input parameters, registers no return parameter
\* and returns the value the call object reports for 'flag'; if the host's
\* lookup of 'flag' fails, check ends in that failure and returns nothing.
C7_CheckReturnsFlag ==
    fn = "check" =>
        /\ \A k \in Indices("registerOutParam") : log[k].args = <<"flag", BIT>>
        /\ Count("registerOutParam") <= 1
        /\ Count("registerReturnParam") = 0
        /\ \A k \in Indices("getOutParamValue") : log[k].args = <<"flag">>
        /\ Count("getOutParamValue") <= 1
        /\ args.in_params = None \/ Val(args.in_params) = InItems
        /\ \A k \in 1..Len(InRegistrations) :
              InRegistrations[k].args[1] = InItems[k].name
        /\ (\E k \in Indices("getOutParamValue") : ~log[k].ret.ok) =>
              (pc = "done" /\ outcome.kind = "raised")
        /\ Completed =>
              /\ Count("registerOutParam") = 1
              /\ Count("getOutParamValue") = 1
              /\ Len(InRegistrations) = Len(InItems)
              /\ outcome.value = ReportedOut("flag")

C7_Witness ==
    /\ fn = "check"
    /\ Completed
    /\ Len(InItems) = 2
    /\ outcome.value = 1
    /\ Count("registerOutParam") = 1

C7_WitnessLookupFails ==
    /\ fn = "check"
    /\ pc = "done"
    /\ outcome.kind = "raised"
    /\ log[Len(log)].op = "getOutParamValue"

\* The place of a host call in the order of _execute_sp.
Phase(op) ==
    CASE op = "createSProcCall" -> 0
      [] op = "registerInParam" -> 1
      [] op = "registerOutParam" -> 2
      [] op = "registerReturnParam" -> 3
      [] op = "execSProcCall" -> 4
      [] OTHER -> 5

\* C8: the host calls of _execute_sp occur in the order createSProcCall,
\* registerInParam calls, registerOutParam calls, registerReturnParam (made
\* if and only if get_ret_val, with return_type_code), execSProcCall, and
\* the accessors only after execSProcCall has returned.
C8_HostCallOrder ==
    /\ Len(log) > 0 => log[1].op = "createSProcCall"
    /\ \A k \in 1..(Len(log) - 1) :
          /\ Phase(log[k].op) <= Phase(log[k + 1].op)
          /\ Phase(log[k].op) \in {0, 3, 4} =>
                Phase(log[k].op) < Phase(log[k + 1].op)
    /\ \A k \in Indices("registerReturnParam") :
          args.get_ret_val /\ log[k].args = <<args.return_type_code>>
    /\ \A k \in Indices("execSProcCall") :
          /\ Count("registerReturnParam") = (IF args.get_ret_val THEN 1 ELSE 0)
          /\ Count("registerInParam") = Len(InItems)
          /\ Count("registerOutParam") = Len(OutItems)
    /\ \A k \in 1..Len(log) :
          Phase(log[k].op) = 5 =>
              \E e \in Indices("execSProcCall") : e < k /\ log[e].ret.ok

C8_Witness ==
    /\ Completed
    /\ args.get_ret_val
    /\ args.get_update_count
    /\ Len(InItems) = 2
    /\ Len(OutItems) = 1
    /\ Len(log) = 9
    /\ log[5].op = "registerReturnParam"
    /\ log[6].op = "execSProcCall"
    /\ log[9].op = "getUpdateCount"

\* C9: for every in_params, the registerInParam calls are one per entry,
\* in the map's iteration order, each passing the entry's name, type tag
\* and value; none when in_params is None or empty.
C9_OneInputPerEntryInOrder ==
    LET regs == InRegistrations
    IN  /\ Len(regs) <= Len(InItems)
        /\ \A k \in 1..Len(regs) :
              /\ regs[k].args =
                    <<InItems[k].name, TypeTag(InItems[k].entry),
                      Value(InItems[k].entry)>>
              /\ ~regs[k].ret.ok => k = Len(regs)
        /\ (PastInParams /\ outcome.kind # "raised") =>
              Len(regs) = Len(InItems)
        /\ ~Truthy(args.in_params) => Len(regs) = 0

C9_Witness ==
    /\ Completed
    /\ Len(InRegistrations) = 2
    /\ InRegistrations[1].args = <<"b", BIT, 1>>
    /\ InRegistrations[2].args = <<"a", 4, 10>>

C9_WitnessEmpty ==
    /\ Completed
    /\ args.in_params = Some(<<>>)
    /\ Len(InRegistrations) = 0

(***************************************************************************)
(* Properties of get_user, checked under SpecUser.                         *)
(***************************************************************************)
\* The user the host holds in the source named by the optional name o.
InSource(o) == IF o = None THEN None ELSE uargs.directory[Val(o)]
ViewOf(u) ==
    [_username |-> Val(u).Username, _first_name |-> Val(u).FirstName,
     _last_name |-> Val(u).LastName, _locale |-> Val(u).Language]
UserDone == upc = "done"

\* C3 as stated: the view of the primary source's user whenever the
\* username is found in the source user_source names, else the view of the
\* failover's user when a failover name is given and the username is found
\* there, else None.
C3_Original_PrimaryThenFailover ==
    UserDone =>
        LET prim == InSource(uargs.user_source)
            fo == IF TruthyStr(uargs.failover)
                  THEN InSource(uargs.failover) ELSE None
        IN  uret = Returned(IF prim # None THEN Some(ViewOf(prim))
                            ELSE IF fo # None THEN Some(ViewOf(fo))
                            ELSE None)

\* C3 amended: as stated, for a non-empty user_source.  An empty (or None)
\* user_source is not looked up at all, even when the host's default
\* source holds the user: the result is then the view of the failover's
\* user, if a failover name is given and the username is found there, and
\* None otherwise.  get_user never raises for a user that is not found.
C3_PrimaryThenFailover ==
    UserDone =>
        LET prim == IF TruthyStr(uargs.user_source)
                    THEN InSource(uargs.user_source) ELSE None
            fo == IF TruthyStr(uargs.failover)
                  THEN InSource(uargs.failover) ELSE None
        IN  uret = Returned(IF prim # None THEN Some(ViewOf(prim))
                            ELSE IF fo # None THEN Some(ViewOf(fo))
                            ELSE None)

C3_Witness ==
    /\ UserDone
    /\ uargs.user_source = Some("A")
    /\ uargs.failover = Some("B")
    /\ uargs.directory["A"] = None
    /\ uargs.directory["B"] # None
    /\ uret.value # None
    /\ Val(uret.value)._locale = "fr"
    /\ get_full_name(Val(uret.value)) = <<"J", " ", "D", "o", "e">>

\* The getUser calls made so far, in order.  The lookup of the primary
\* source, when made, is the first of them; a lookup after it (or a first
\* lookup when none of the primary was made) is the failover's.
Lookups == SelectSeq(ulog, LAMBDA e : e.op = "getUser")
PastPrimary == upc \in {"failover", "wrap", "done"}

\* C10 as stated: a getUser call on the failover is preceded by a getUser
\* call on the primary source that returned no user, and no source is
\* looked up more than once.
C10_Original_FailoverOnlyAfterPrimaryMiss ==
    PastPrimary =>
        LET g == Lookups
            primaryMade == Len(g) > 0 /\ TruthyStr(uargs.user_source)
            failoverMade == Len(g) > (IF primaryMade THEN 1 ELSE 0)
        IN  /\ failoverMade => (primaryMade /\ g[1].ret.v = None)
            /\ \A j, k \in 1..Len(g) : j # k => g[j].args[1] # g[k].args[1]

\* C10 amended: the failover source is consulted only if no user was
\* obtained from the primary source: either the lookup of the primary was
\* made and returned no user, or user_source was empty and no lookup of the
\* primary was made at all.  It is never consulted when the primary lookup
\* found the user.  At most two lookups are made, the first (if any) on
\* user_source and then at most one on failover; they may name the same
\* source.
C10_FailoverOnlyWithoutPrimaryUser ==
    LET g == Lookups
        np == IF PastPrimary /\ TruthyStr(uargs.user_source) THEN 1 ELSE 0
    IN  /\ Len(g) <= np + 1
        /\ upc \in {"idle", "username", "primary", "failover"} => Len(g) = np
        /\ np = 1 => g[1].args = <<Val(uargs.user_source), "jdoe">>
        /\ Len(g) = np + 1 =>
              /\ TruthyStr(uargs.failover)
              /\ g[np + 1].args = <<Val(uargs.failover), "jdoe">>
              /\ np = 1 => g[1].ret.v = None
        /\ \A k \in 1..Len(g) :
              g[k].ret.v = uargs.directory[g[k].args[1]]

C10_Witness ==
    /\ UserDone
    /\ Len(Lookups) = 2
    /\ Lookups[1].args[1] = "A"
    /\ Lookups[1].ret.v = None
    /\ Lookups[2].args[1] = "B"
    /\ Lookups[2].ret.v # None

C10_WitnessNoPrimary ==
    /\ UserDone
    /\ uargs.user_source = Some("")
    /\ Len(Lookups) = 1
    /\ Lookups[1].args[1] = "B"

(***************************************************************************)
(* Properties of get_emails, checked under SpecEmails.                     *)
(***************************************************************************)
\* The 'email' contact values of the users that pass the filter.
ExpectedEmails ==
    {a \in {ce.value : ce \in ContactEntries} :
        \E k \in 1..Len(eargs.users) :
            /\ \E j \in 1..Len(eargs.users[k].contacts) :
                  /\ eargs.users[k].contacts[j].contactType = "email"
                  /\ eargs.users[k].contacts[j].value = a
            /\ \/ eargs.filter_role = ""
               \/ \E r \in 1..Len(eargs.users[k].roles) :
                     eargs.users[k].roles[r] = eargs.filter_role}

\* C4: get_emails returns a strictly ascending sequence, so one without
\* duplicates, whose elements are exactly the 'email' contact values of the
\* users that pass the filter: every user when filter_role is empty, the
\* users whose roles contain filter_role otherwise.
C4_SortedDeduplicatedFiltered ==
    epc = "done" =>
        /\ \A k \in 1..(Len(eret) - 1) : StrLess(eret[k], eret[k + 1])
        /\ {eret[k] : k \in 1..Len(eret)} = ExpectedEmails

\* Two users share the address "b", which is returned once.
C4_Witness ==
    /\ epc = "done"
    /\ eargs.filter_role = ""
    /\ Len(eargs.users) = 2
    /\ eargs.users[1].contacts = <<[contactType |-> "email", value |-> <<98>>]>>
    /\ eargs.users[2].contacts = <<[contactType |-> "email", value |-> <<98>>]>>
    /\ eret = << <<98>> >>

\* With the filter 'admin' the address of the user who lacks the role is
\* left out.
C4_WitnessFilter ==
    /\ epc = "done"
    /\ eargs.filter_role = "admin"
    /\ Len(eargs.users) = 2
    /\ eargs.users[1].roles = <<"op">>
    /\ eargs.users[1].contacts = <<[contactType |-> "email", value |-> <<98>>]>>
    /\ eargs.users[2].roles = <<"op", "admin">>
    /\ eargs.users[2].contacts =
           <<[contactType |-> "email", value |-> <<97, 98>>]>>
    /\ eret = << <<97, 98>> >>

====
